---------------------------- MODULE Spec2Model ----------------------------
(***************************************************************************)
(* The canvas editors of neo4j-data-abstraction as one state machine.      *)
(*                                                                         *)
(* The repository holds four editors, told apart by `variant`:             *)
(*   "basic"  - the hand-rolled canvas   (src/unnamed/part_000, 1-325)     *)
(*   "flow"   - the viewport-aware React Flow canvas with rename and       *)
(*              delete                   (src/unnamed/part_000, 326-716)   *)
(*   "export" - the React Flow canvas with the Save button                 *)
(*                                       (src/unnamed/part_002)            *)
(*   "sample" - the React Flow sample with three fixed nodes               *)
(*                                       (src/unnamed/part_001)            *)
(* canvasRect is Null once the editor is unmounted (its refs are null).    *)
(* A behaviour fixes its variant in Init; every action is one event        *)
(* handler run to completion together with the React state updates it      *)
(* queues (React batches the updates of one handler into one commit).      *)
(*                                                                         *)
(* Strings that the code trims are sequences of chunks, the chunk " "      *)
(* being white space.  A UUID is the number of the call that produced it.  *)
(***************************************************************************)
EXTENDS Integers, Sequences, FiniteSets, TLC

VARIABLES
    variant,        \* which editor this behaviour runs
    nodes,          \* useState<Node[]> / useNodesState
    rendered,       \* the node objects as the node components last rendered them
    edges,          \* useEdgesState (flow, export)
    isDragging,     \* basic: useState<boolean>; flow: a React Flow node drag is on
    draggedNodeId,  \* basic: useState<string | null>; flow: the node of that drag
    dragOffset,     \* basic: useState<{x, y}>
    listeners,      \* basic: the window's mousemove and mouseup listeners
    canvasRect,     \* getBoundingClientRect() of the canvas / wrapper element
    viewport,       \* React Flow's pan and zoom (flow, export)
    uuidCount,      \* number of ids the generator has produced so far
    isModalOpen,    \* export: useState(false)
    modalMessage,   \* export: useState('')
    copied          \* export: the text given to navigator.clipboard.writeText by
                    \* the save whose notification is showing

vars == <<variant, nodes, rendered, edges, isDragging, draggedNodeId, dragOffset,
          listeners,
          canvasRect, viewport, uuidCount, isModalOpen, modalMessage, copied>>

envVars  == <<variant, canvasRect, viewport>>
dragVars == <<isDragging, draggedNodeId, dragOffset, listeners>>
saveVars == <<isModalOpen, modalMessage, copied>>

-----------------------------------------------------------------------------
(* Bounds of the model.                                                    *)

MaxNodes == 2                \* nodes on the canvas at one time
MaxEdges == MaxNodes         \* edges on the canvas at one time
MaxUuid == MaxNodes + 1      \* ids drawn from the generator in one behaviour

(* Inputs the events are drawn from.                                       *)

Point(px, py) == [x |-> px, y |-> py]

DropPoints == {Point(130, 130)}
MovePoints == {Point(220, 220), Point(130, 130)}
PressOffsets == {Point(15, 10)}          \* presses on a node's header
InputPressOffsets == {Point(120, 90)}    \* presses on a node's name input
CanvasOrigins == {[left |-> 20, top |-> 20], [left |-> 120, top |-> 120]}
NameInputs == {<<>>, <<"A", " ">>}
DropTags == {"Company", "Employee", "Supplier", "", "Widget", "constructor"}

Null == <<>>

(* The value undefined.                                                    *)
JSUndefined == <<"js", "undefined">>

Identity == [x |-> 0, y |-> 0, zoom |-> 1]

-----------------------------------------------------------------------------
(* Entity registry.                                                        *)

EntityTypes == {"Company", "Employee", "Supplier"}

ENTITY_CONFIG ==
    [t \in EntityTypes |->
        CASE t = "Company"  -> [initialName |-> <<"New", " ", "Company">>]
          [] t = "Employee" -> [initialName |-> <<"New", " ", "Employee">>]
          [] t = "Supplier" -> [initialName |-> <<"New", " ", "Supplier">>]]

(* Names every object literal inherits from Object.prototype.              *)
ObjectPrototypeKeys == {"constructor", "toString", "valueOf", "hasOwnProperty"}

(* ENTITY_CONFIG[key] is truthy: key is an own entry or a name inherited   *)
(* from Object.prototype.                                                  *)
ENTITY_CONFIG_has(key) ==
    key \in DOMAIN ENTITY_CONFIG \/ key \in ObjectPrototypeKeys

(* ENTITY_CONFIG[key] where it is truthy: an own entry, else the function  *)
(* inherited under that name, which has no initialName.                    *)
ENTITY_CONFIG_get(key) ==
    IF key \in DOMAIN ENTITY_CONFIG THEN ENTITY_CONFIG[key]
    ELSE [initialName |-> JSUndefined]

(* const { icon: Icon } = ENTITY_CONFIG[type]; <Icon/>: rendering a node   *)
(* throws when the lookup yields no icon, and React then unmounts the      *)
(* editor.                                                                 *)
RenderThrows(nds) ==
    \E i \in 1..Len(nds) : nds[i].type \notin DOMAIN ENTITY_CONFIG

Max(a, b) == IF a >= b THEN a ELSE b

(* String.prototype.trim on a chunk sequence.                              *)
RECURSIVE TrimStart(_)
TrimStart(s) ==
    IF s # <<>> /\ Head(s) = " " THEN TrimStart(Tail(s)) ELSE s

RECURSIVE TrimEnd(_)
TrimEnd(s) ==
    IF s # <<>> /\ s[Len(s)] = " " THEN TrimEnd(SubSeq(s, 1, Len(s) - 1)) ELSE s

Trim(s) == TrimEnd(TrimStart(s))

(* crypto.randomUUID(), given the number of UUIDs drawn so far: a value    *)
(* that no earlier call returned.                                          *)
randomUUID(count) == count + 1

(* Mutant of generateUniqueId: the id is computed once, when the module    *)
(* loads.                                                                  *)
generateUniqueId_Once(count) == <<1>>

(* generateUniqueId() of the basic editor.                                 *)
generateUniqueId(count) == <<randomUUID(count)>>

(* generateUniqueId(prefix) of the flow editor: `${prefix}-${uuid}`.       *)
Flow_generateUniqueId(prefix, count) == <<prefix, randomUUID(count)>>

(* The UUID inside an id.                                                  *)
UuidOf(id) == id[Len(id)]

NodeIds == {nodes[i].id : i \in 1..Len(nodes)}

NodeById(id) == nodes[CHOOSE i \in 1..Len(nodes) : nodes[i].id = id]


-----------------------------------------------------------------------------
(* The basic editor: BusinessModelCanvas of part_000, lines 154-323.       *)

(* border-l on the canvas element: the nodes' static position starts       *)
(* inside the canvas's border box.                                         *)
CanvasBorderLeft == 1

(* getBoundingClientRect() of the DiagramNode element of node n: the       *)
(* element is absolutely positioned in the canvas and translated by (x,y). *)
NodeRect(n) ==
    [left |-> canvasRect.left + CanvasBorderLeft + n.x,
     top  |-> canvasRect.top + n.y]

(* Mutant of handleDropNodes: the position is not clamped.                 *)
handleDropNodes_Unclamped(nds, nodeType, p, rect, count) ==
    IF rect # Null /\ nodeType # "" /\ ENTITY_CONFIG_has(nodeType)
    THEN Append(nds, [id   |-> generateUniqueId(count),
                      type |-> nodeType,
                      name |-> ENTITY_CONFIG_get(nodeType).initialName,
                      x    |-> p.x - rect.left - 30,
                      y    |-> p.y - rect.top - 30])
    ELSE nds

(* Mutant of handleDropNodes: a canvas that cannot be resolved counts as   *)
(* one at the origin.                                                      *)
handleDropNodes_NoRefTest(nds, nodeType, p, rect, count) ==
    IF nodeType # "" /\ ENTITY_CONFIG_has(nodeType)
    THEN Append(nds, [id   |-> generateUniqueId(count),
                      type |-> nodeType,
                      name |-> ENTITY_CONFIG_get(nodeType).initialName,
                      x    |-> Max(0, p.x - (IF rect = Null THEN 0 ELSE rect.left) - 30),
                      y    |-> Max(0, p.y - (IF rect = Null THEN 0 ELSE rect.top) - 30)])
    ELSE nds

(* Mutant of handleDropNodes: the new node is put first.                   *)
handleDropNodes_Prepend(nds, nodeType, p, rect, count) ==
    IF rect # Null /\ nodeType # "" /\ ENTITY_CONFIG_has(nodeType)
    THEN <<[id   |-> generateUniqueId(count),
            type |-> nodeType,
            name |-> ENTITY_CONFIG_get(nodeType).initialName,
            x    |-> Max(0, p.x - rect.left - 30),
            y    |-> Max(0, p.y - rect.top - 30)]>> \o nds
    ELSE nds

(* The node list handleDrop leaves, for the tag read from the drag payload *)
(* ("" when there is none), the pointer p and the canvas rectangle (Null   *)
(* when canvasRef.current is null).                                        *)
handleDropNodes(nds, nodeType, p, rect, count) ==
    IF rect # Null /\ nodeType # "" /\ ENTITY_CONFIG_has(nodeType)
    THEN LET x == p.x - rect.left - 30
             y == p.y - rect.top - 30
             newNode == [id   |-> generateUniqueId(count),
                         type |-> nodeType,
                         name |-> ENTITY_CONFIG_get(nodeType).initialName,
                         x    |-> Max(0, x),
                         y    |-> Max(0, y)]
         IN  Append(nds, newNode)
    ELSE nds

(* The canvas after a commit of the node list nds: the editor is          *)
(* unmounted, and its refs are null, when rendering a node throws.         *)
Commit(nds) == IF RenderThrows(nds) THEN Null ELSE canvasRect

handleDrop(nodeType, p) ==
    /\ variant = "basic"
    /\ Len(nodes) < MaxNodes
    /\ nodes' = handleDropNodes(nodes, nodeType, p, canvasRect, uuidCount)
    /\ uuidCount' = IF Len(nodes') > Len(nodes) THEN uuidCount + 1 ELSE uuidCount
    /\ canvasRect' = Commit(nodes')
    /\ rendered' = nodes'
    /\ UNCHANGED <<variant, viewport, edges, dragVars, saveVars>>

(* handleMouseMove as useCallback keeps it: one function for each value of *)
(* isDragging, draggedNodeId and dragOffset, which it closes over.         *)
handleMouseMove_useCallback(dragging, dragged, offset) ==
    [isDragging |-> dragging, draggedNodeId |-> dragged, dragOffset |-> offset]

NoListeners == [mousemove |-> {}, mouseup |-> {}]

(* Mutant of useEffect: the effect has no cleanup.                         *)
useEffect_NoCleanup(registered, before, after) ==
    IF before = after THEN registered
    ELSE IF after.isDragging
         THEN [mousemove |-> registered.mousemove \cup {after},
               mouseup   |-> registered.mouseup \cup {"handleMouseUp"}]
         ELSE [mousemove |-> registered.mousemove \ {after},
               mouseup   |-> registered.mouseup \ {"handleMouseUp"}]

(* The effect of lines 235-248 at a commit that takes handleMouseMove from *)
(* the function before to the function after (handleMouseUp is one         *)
(* function throughout): nothing when the dependencies are the same; else  *)
(* the cleanup of the last run removes the functions that run saw, and the *)
(* body adds the new ones while isDragging and removes them otherwise.     *)
(* The window holds a function at most once for an event type.             *)
useEffect(registered, before, after) ==
    IF before = after THEN registered
    ELSE LET cleaned == [mousemove |-> registered.mousemove \ {before},
                         mouseup   |-> registered.mouseup \ {"handleMouseUp"}]
         IN  IF after.isDragging
             THEN [mousemove |-> cleaned.mousemove \cup {after},
                   mouseup   |-> cleaned.mouseup \cup {"handleMouseUp"}]
             ELSE [mousemove |-> cleaned.mousemove \ {after},
                   mouseup   |-> cleaned.mouseup \ {"handleMouseUp"}]

(* The listeners after the commit of a handler that set the drag state.    *)
Effects ==
    useEffect(listeners,
              handleMouseMove_useCallback(isDragging, draggedNodeId, dragOffset),
              handleMouseMove_useCallback(isDragging', draggedNodeId', dragOffset'))

(* Mutant of handleNodeDragStart: a press during a drag captures its       *)
(* offset and keeps the node that is being dragged.                        *)
handleNodeDragStart_KeepFirst(nodeId, o) ==
    /\ variant = "basic"
    /\ canvasRect # Null
    /\ nodeId \in NodeIds
    /\ dragOffset' = o
    /\ draggedNodeId' = (IF isDragging THEN draggedNodeId ELSE nodeId)
    /\ isDragging' = TRUE
    /\ listeners' = Effects
    /\ UNCHANGED <<envVars, nodes, rendered, edges, uuidCount, saveVars>>

(* The offset handleNodeDragStart captures for a press at the pointer      *)
(* client on the element whose rectangle is rect.                          *)
handleNodeDragStartOffset(client, rect) ==
    Point(client.x - rect.left, client.y - rect.top)

(* A press on the DiagramNode of nodeId, o away from its top-left corner.  *)
handleNodeDragStart(nodeId, o) ==
    /\ variant = "basic"
    /\ canvasRect # Null
    /\ nodeId \in NodeIds
    /\ LET rect == NodeRect(NodeById(nodeId))
           client == Point(rect.left + o.x, rect.top + o.y)
       IN  dragOffset' = handleNodeDragStartOffset(client, rect)
    /\ draggedNodeId' = nodeId
    /\ isDragging' = TRUE
    /\ listeners' = Effects
    /\ UNCHANGED <<envVars, nodes, rendered, edges, uuidCount, saveVars>>

(* A press on the name input of nodeId, o away from the node's top-left    *)
(* corner: the input has no onMouseDown of its own, so the event bubbles   *)
(* to the wrapper's onMouseDown with the wrapper as currentTarget.         *)
DiagramNode_input_onMouseDown(nodeId, o) == handleNodeDragStart(nodeId, o)

(* Mutants of handleMouseMoveNodes: the captured offset is not             *)
(* subtracted; the new position is added to the old one.                   *)
handleMouseMoveNodes_NoOffset(nds, p, rect, dragging, dragged, offset) ==
    IF ~dragging \/ dragged = Null \/ rect = Null
    THEN nds
    ELSE [i \in 1..Len(nds) |->
            IF nds[i].id = dragged
            THEN [nds[i] EXCEPT !.x = p.x - rect.left, !.y = p.y - rect.top]
            ELSE nds[i]]

handleMouseMoveNodes_Relative(nds, p, rect, dragging, dragged, offset) ==
    IF ~dragging \/ dragged = Null \/ rect = Null
    THEN nds
    ELSE [i \in 1..Len(nds) |->
            IF nds[i].id = dragged
            THEN [nds[i] EXCEPT !.x = @ + p.x - rect.left - offset.x,
                                !.y = @ + p.y - rect.top - offset.y]
            ELSE nds[i]]

(* Mutant of handleMouseMoveNodes: a canvas that cannot be resolved counts *)
(* as one at the origin.                                                   *)
handleMouseMoveNodes_NoRefTest(nds, p, rect, dragging, dragged, offset) ==
    IF ~dragging \/ dragged = Null
    THEN nds
    ELSE [i \in 1..Len(nds) |->
            IF nds[i].id = dragged
            THEN [nds[i] EXCEPT
                    !.x = p.x - (IF rect = Null THEN 0 ELSE rect.left) - offset.x,
                    !.y = p.y - (IF rect = Null THEN 0 ELSE rect.top) - offset.y]
            ELSE nds[i]]

(* Mutant of handleMouseMoveNodes: the id is not compared.                 *)
handleMouseMoveNodes_All(nds, p, rect, dragging, dragged, offset) ==
    IF ~dragging \/ dragged = Null \/ rect = Null
    THEN nds
    ELSE [i \in 1..Len(nds) |->
            [nds[i] EXCEPT !.x = p.x - rect.left - offset.x,
                           !.y = p.y - rect.top - offset.y]]

(* The node list handleMouseMove leaves for a pointer at p.                *)
handleMouseMoveNodes(nds, p, rect, dragging, dragged, offset) ==
    IF ~dragging \/ dragged = Null \/ rect = Null
    THEN nds
    ELSE LET newX == p.x - rect.left - offset.x
             newY == p.y - rect.top - offset.y
         IN  [i \in 1..Len(nds) |->
                IF nds[i].id = dragged
                THEN [nds[i] EXCEPT !.x = newX, !.y = newY]
                ELSE nds[i]]

(* The window's mousemove listener, with the values the registered         *)
(* function closed over; the effect registers it while isDragging is true, *)
(* and it can still run after the editor is unmounted, until the effect's  *)
(* cleanup removes it.                                                     *)
handleMouseMove(p) ==
    /\ variant = "basic"
    /\ \E f \in listeners.mousemove :
          nodes' = handleMouseMoveNodes(nodes, p, canvasRect, f.isDragging,
                                        f.draggedNodeId, f.dragOffset)
    /\ rendered' = nodes'
    /\ UNCHANGED <<envVars, edges, dragVars, uuidCount, saveVars>>

(* Mutant of handleMouseUp: the dragged id is kept.                        *)
handleMouseUp_KeepsId ==
    /\ variant = "basic"
    /\ canvasRect # Null
    /\ "handleMouseUp" \in listeners.mouseup
    /\ isDragging' = FALSE
    /\ UNCHANGED <<draggedNodeId, dragOffset>>
    /\ listeners' = Effects
    /\ UNCHANGED <<envVars, nodes, rendered, edges, uuidCount, saveVars>>

(* The window's mouseup listener.  After an unmount the setters of the     *)
(* component change nothing.                                               *)
handleMouseUp ==
    /\ variant = "basic"
    /\ canvasRect # Null
    /\ "handleMouseUp" \in listeners.mouseup
    /\ isDragging' = FALSE
    /\ draggedNodeId' = Null
    /\ UNCHANGED dragOffset
    /\ listeners' = Effects
    /\ UNCHANGED <<envVars, nodes, rendered, edges, uuidCount, saveVars>>

(* The cleanup of the effect, which React runs after it has unmounted the  *)
(* editor.                                                                 *)
useEffect_cleanup ==
    /\ variant = "basic"
    /\ canvasRect = Null
    /\ listeners # NoListeners
    /\ listeners' = NoListeners
    /\ UNCHANGED <<envVars, nodes, rendered, edges, isDragging, draggedNodeId,
                   dragOffset, uuidCount, saveVars>>

(* Mutant of handleNameChangeNodes: the id is not compared.                *)
handleNameChangeNodes_All(nds, id, newName) ==
    [i \in 1..Len(nds) |-> [nds[i] EXCEPT !.name = newName]]

(* handleNameChange: the store's rename.                                   *)
handleNameChangeNodes(nds, id, newName) ==
    [i \in 1..Len(nds) |->
        IF nds[i].id = id THEN [nds[i] EXCEPT !.name = newName] ELSE nds[i]]

(* The name input's onChange: every edit of the input's text reaches the   *)
(* store as typed.  React raises onChange only when the text differs from  *)
(* the value the input shows, which is the node's name.                    *)
DiagramNode_onChange(id, value) ==
    /\ variant = "basic"
    /\ canvasRect # Null
    /\ id \in NodeIds
    /\ value # NodeById(id).name
    /\ nodes' = handleNameChangeNodes(nodes, id, value)
    /\ rendered' = nodes'
    /\ UNCHANGED <<envVars, edges, dragVars, uuidCount, saveVars>>

(* The name a blur of the input leaves, given the input's text.            *)
handleBlurName(name, value) ==
    LET newName == Trim(value)
    IN  IF newName # name /\ Len(newName) > 0 THEN newName ELSE name

(* The name input's onBlur; the controlled input shows the node's name.    *)
DiagramNode_handleBlur(id) ==
    /\ variant = "basic"
    /\ canvasRect # Null
    /\ id \in NodeIds
    /\ LET name == NodeById(id).name
       IN  nodes' = handleNameChangeNodes(nodes, id, handleBlurName(name, name))
    /\ rendered' = nodes'
    /\ UNCHANGED <<envVars, edges, dragVars, uuidCount, saveVars>>

(* React unmounts the editor (its host removes it): the refs are null     *)
(* from then on.  The state the closures captured stays as it is.          *)
Unmount ==
    /\ canvasRect # Null
    /\ canvasRect' = Null
    /\ UNCHANGED <<variant, viewport, nodes, rendered, edges, dragVars, uuidCount, saveVars>>

BasicNext ==
    \/ \E t \in DropTags, p \in DropPoints : handleDrop(t, p)
    \/ \E id \in NodeIds, o \in PressOffsets : handleNodeDragStart(id, o)
    \/ \E id \in NodeIds, o \in InputPressOffsets :
            DiagramNode_input_onMouseDown(id, o)
    \/ \E p \in MovePoints : handleMouseMove(p)
    \/ handleMouseUp
    \/ useEffect_cleanup
    \/ \E id \in NodeIds, v \in NameInputs : DiagramNode_onChange(id, v)
    \/ \E id \in NodeIds : DiagramNode_handleBlur(id)

-----------------------------------------------------------------------------
(* React Flow, as far as the editors use it.                               *)

FlowDragPositions == {Point(185, 190)}
Zoomed == [x |-> 10, y |-> 10, zoom |-> 2]

(* A handle id is <<name>>, or <<>> for null (a Handle without an id).     *)
NoHandle == <<>>
Falsy(h) == h = <<>> \/ h = <<"">>

(* pointToRendererPoint: undoes the viewport's pan and zoom.               *)
pointToRendererPoint(p, vp) ==
    Point((p.x - vp.x) \div vp.zoom, (p.y - vp.y) \div vp.zoom)

(* screenToFlowPosition: client coordinates to canvas space.               *)
screenToFlowPosition(p, rect, vp) ==
    pointToRendererPoint(Point(p.x - rect.left, p.y - rect.top), vp)

(* connectionExists of addEdge.                                            *)
connectionExists(edge, eds) ==
    \E i \in 1..Len(eds) :
        /\ eds[i].source = edge.source
        /\ eds[i].target = edge.target
        /\ \/ eds[i].sourceHandle = edge.sourceHandle
           \/ (Falsy(eds[i].sourceHandle) /\ Falsy(edge.sourceHandle))
        /\ \/ eds[i].targetHandle = edge.targetHandle
           \/ (Falsy(eds[i].targetHandle) /\ Falsy(edge.targetHandle))

(* Mutant of addEdge: the edge is added whether or not the connection is   *)
(* in the list.                                                            *)
addEdge_NoDedup(edge, eds) ==
    IF edge.source = Null \/ edge.target = Null THEN eds
    ELSE Append(eds, edge)

(* addEdge(edge, eds) for an edge that carries its id: the list is         *)
(* returned as it is when the connection is already in it.                 *)
addEdge(edge, eds) ==
    IF edge.source = Null \/ edge.target = Null THEN eds
    ELSE IF connectionExists(edge, eds) THEN eds
    ELSE Append(eds, edge)

(* applyNodeChanges / applyEdgeChanges for changes of type 'remove'.       *)
applyRemove(items, ids) ==
    SelectSeq(items, LAMBDA it : it.id \notin ids)

(* applyNodeChanges for one change of type 'position'.                     *)
applyPosition(nds, id, pos) ==
    [i \in 1..Len(nds) |->
        IF nds[i].id = id THEN [nds[i] EXCEPT !.position = pos] ELSE nds[i]]

(* A property an object does not have is <<>>, one it has is <<value>>.    *)
Unset == <<>>

(* The size React Flow measures for a rendered EntityNode.                 *)
MeasuredWidth == 192
MeasuredHeight == 104

(* applyNodeChanges for one change of type 'dimensions': the measured size *)
(* is written on the node.                                                 *)
applyDimensions(nds, id, w, h) ==
    [i \in 1..Len(nds) |->
        IF nds[i].id = id
        THEN [nds[i] EXCEPT !.width = <<w>>, !.height = <<h>>]
        ELSE nds[i]]

(* applyNodeChanges for changes of type 'select': selected is written on   *)
(* the nodes the changes name.                                             *)
applySelect(nds, selectedIds, deselectedIds) ==
    [i \in 1..Len(nds) |->
        IF nds[i].id \in selectedIds THEN [nds[i] EXCEPT !.selected = <<TRUE>>]
        ELSE IF nds[i].id \in deselectedIds
             THEN [nds[i] EXCEPT !.selected = <<FALSE>>]
             ELSE nds[i]]

(* applyNodeChanges for one change of type 'position' of a node without a  *)
(* parent, keeping positionAbsolute as the change carries it.              *)
applyPositionAbsolute(nds, id, pos) ==
    [i \in 1..Len(nds) |->
        IF nds[i].id = id
        THEN [nds[i] EXCEPT !.position = pos, !.positionAbsolute = <<pos>>]
        ELSE nds[i]]

(* getConnectedEdges: the ids of the edges that touch one of the nodes.    *)
getConnectedEdges(ids, eds) ==
    {eds[i].id : i \in {j \in 1..Len(eds) :
                          eds[j].source \in ids \/ eds[j].target \in ids}}

-----------------------------------------------------------------------------
(* The flow editor: FlowCanvas of part_000, lines 559-672.                 *)

(* Mutant of Flow_onConnectEdges: source and target change places.         *)
Flow_onConnectEdges_Swapped(eds, params, count) ==
    addEdge([id           |-> Flow_generateUniqueId("edge", count),
             source       |-> params.target,
             sourceHandle |-> params.sourceHandle,
             target       |-> params.source,
             targetHandle |-> params.targetHandle,
             animated     |-> TRUE],
            eds)

(* onConnect: the connection the user drew between two rendered nodes,     *)
(* from the source handle "b" of one to the target handle "a" of the other. *)
Flow_onConnectEdges(eds, params, count) ==
    addEdge([id           |-> Flow_generateUniqueId("edge", count),
             source       |-> params.source,
             sourceHandle |-> params.sourceHandle,
             target       |-> params.target,
             targetHandle |-> params.targetHandle,
             animated     |-> TRUE],
            eds)

Flow_onConnect(source, target) ==
    /\ variant = "flow"
    /\ canvasRect # Null
    /\ Len(edges) < MaxEdges /\ uuidCount < MaxUuid
    /\ source \in NodeIds /\ target \in NodeIds
    /\ edges' = Flow_onConnectEdges(edges,
                    [source |-> source, sourceHandle |-> <<"b">>,
                     target |-> target, targetHandle |-> <<"a">>], uuidCount)
    /\ uuidCount' = uuidCount + 1
    /\ UNCHANGED <<envVars, nodes, rendered, dragVars, saveVars>>

(* handleNameChange of the flow editor.                                    *)
Flow_handleNameChangeNodes(nds, id, newName) ==
    [i \in 1..Len(nds) |->
        IF nds[i].id = id
        THEN [nds[i] EXCEPT !.data = [nds[i].data EXCEPT !.name = newName]]
        ELSE nds[i]]

(* The CustomNode input's onChange (see DiagramNode_onChange).             *)
CustomNode_onChange(id, value) ==
    /\ variant = "flow"
    /\ canvasRect # Null
    /\ id \in NodeIds
    /\ value # NodeById(id).data.name
    /\ nodes' = Flow_handleNameChangeNodes(nodes, id, value)
    /\ rendered' = nodes'
    /\ UNCHANGED <<envVars, edges, dragVars, uuidCount, saveVars>>

(* The name a blur of the CustomNode input leaves.                         *)
CustomNode_handleBlurName(name, value) ==
    LET newName == Trim(value)
    IN  IF newName # name /\ Len(newName) > 0 THEN newName ELSE name

CustomNode_handleBlur(id) ==
    /\ variant = "flow"
    /\ canvasRect # Null
    /\ id \in NodeIds
    /\ LET name == NodeById(id).data.name
       IN  nodes' = Flow_handleNameChangeNodes(nodes, id,
                        CustomNode_handleBlurName(name, name))
    /\ rendered' = nodes'
    /\ UNCHANGED <<envVars, edges, dragVars, uuidCount, saveVars>>

(* Mutants of handleNodeDeleteEdges: the target is not looked at; the two  *)
(* tests are joined by "or"; every edge is removed.                        *)
handleNodeDeleteEdges_All(eds, id) == <<>>

handleNodeDeleteEdges_SourceOnly(eds, id) ==
    SelectSeq(eds, LAMBDA edge : edge.source # id)

handleNodeDeleteEdges_Or(eds, id) ==
    SelectSeq(eds, LAMBDA edge : edge.source # id \/ edge.target # id)

(* handleNodeDelete: the two filters.                                      *)
handleNodeDeleteEdges(eds, id) ==
    SelectSeq(eds, LAMBDA edge : edge.source # id /\ edge.target # id)

handleNodeDeleteNodes(nds, id) ==
    SelectSeq(nds, LAMBDA node : node.id # id)

(* Mutant of handleNodeDeleteSteps: the node is removed first.             *)
handleNodeDeleteSteps_NodeFirst(eds, nds, id) ==
    <<[edges |-> eds,
       nodes |-> handleNodeDeleteNodes(nds, id)],
      [edges |-> handleNodeDeleteEdges(eds, id),
       nodes |-> handleNodeDeleteNodes(nds, id)]>>

(* The store after each of the two updates handleNodeDelete queues, in the *)
(* order it queues them: setEdges, then setNodes.                          *)
handleNodeDeleteSteps(eds, nds, id) ==
    <<[edges |-> handleNodeDeleteEdges(eds, id),
       nodes |-> nds],
      [edges |-> handleNodeDeleteEdges(eds, id),
       nodes |-> handleNodeDeleteNodes(nds, id)]>>

(* React commits the two updates of the one click together.                *)
handleNodeDelete(id) ==
    LET done == handleNodeDeleteSteps(edges, nodes, id)[2]
    IN  /\ edges' = done.edges
        /\ nodes' = done.nodes
        /\ rendered' = nodes'

(* A click on the trash button of node id; confirmed is the answer to      *)
(* window.confirm.                                                         *)
handleDeleteClick(id, confirmed) ==
    /\ variant = "flow"
    /\ canvasRect # Null
    /\ id \in NodeIds
    /\ IF confirmed THEN handleNodeDelete(id) ELSE UNCHANGED <<nodes, rendered, edges>>
    /\ UNCHANGED <<envVars, dragVars, uuidCount, saveVars>>

(* handleDrop of the flow editor.                                          *)
Flow_handleDropNodes(nds, nodeType, p, rect, vp, count) ==
    IF rect # Null /\ nodeType # "" /\ ENTITY_CONFIG_has(nodeType)
    THEN LET position == screenToFlowPosition(p, rect, vp)
             config == ENTITY_CONFIG_get(nodeType)
             newNode == [id       |-> Flow_generateUniqueId("node", count),
                         type     |-> nodeType,
                         position |-> Point(position.x - 120, position.y - 55),
                         data     |-> [type |-> nodeType,
                                       name |-> config.initialName]]
         IN  Append(nds, newNode)
    ELSE nds

Flow_handleDrop(nodeType, p) ==
    /\ variant = "flow"
    /\ Len(nodes) < MaxNodes /\ uuidCount < MaxUuid
    /\ nodes' = Flow_handleDropNodes(nodes, nodeType, p, canvasRect, viewport,
                                     uuidCount)
    /\ uuidCount' = IF Len(nodes') > Len(nodes) THEN uuidCount + 1 ELSE uuidCount
    /\ canvasRect' = Commit(nodes')
    /\ rendered' = nodes'
    /\ UNCHANGED <<variant, viewport, edges, dragVars, saveVars>>

(* onNodesChange for the position change React Flow raises while the user  *)
(* drags node id.                                                          *)
Flow_onNodesChange_position(id, pos) ==
    /\ variant = "flow"
    /\ canvasRect # Null
    /\ id \in NodeIds
    /\ nodes' = applyPosition(nodes, id, pos)
    /\ rendered' = nodes'
    /\ UNCHANGED <<envVars, edges, dragVars, uuidCount, saveVars>>

(* onEdgesChange and onNodesChange for the remove changes React Flow       *)
(* raises when the user deletes the selected node id with the keyboard:    *)
(* the node and the edges connected to it.                                 *)
Flow_onNodesChange_remove(id) ==
    /\ variant = "flow"
    /\ canvasRect # Null
    /\ id \in NodeIds
    /\ edges' = applyRemove(edges, getConnectedEdges({id}, edges))
    /\ nodes' = applyRemove(nodes, {id})
    /\ rendered' = nodes'
    /\ UNCHANGED <<envVars, dragVars, uuidCount, saveVars>>

(* React Flow starts the drag of a node from a mousedown listener that it  *)
(* adds to the node's wrapper element, for every press on an element that  *)
(* does not carry the class "nodrag".                                      *)
ReactFlow_dragFilter(className) == "nodrag" \notin className

(* The classes of the two controls of a CustomNode.                        *)
DeleteButton_className ==
    {"p-1", "rounded-full", "bg-white/20", "hover:bg-white/40",
     "transition-colors", "focus:outline-none", "focus:ring-2",
     "focus:ring-white"}

Input_className ==
    {"w-full", "text-center", "text-gray-800", "font-medium", "text-lg",
     "border-b-2", "border-transparent", "focus:border-indigo-500",
     "focus:outline-none", "transition-colors", "nodrag"}

CustomNode_classNames == {DeleteButton_className, Input_className}

(* A press of the primary mouse button on a control of node id.  The       *)
(* button's onMouseDown calls e.stopPropagation() on the event React       *)
(* delivers from its root container, which the native event reaches after  *)
(* it has passed the wrapper's listener: the class alone decides whether   *)
(* the drag starts.                                                        *)
CustomNode_onMouseDown(id, className) ==
    /\ variant = "flow"
    /\ canvasRect # Null
    /\ id \in NodeIds
    /\ ~isDragging
    /\ ReactFlow_dragFilter(className)
    /\ isDragging' = TRUE
    /\ draggedNodeId' = id
    /\ UNCHANGED <<envVars, nodes, rendered, edges, dragOffset, listeners,
                   uuidCount, saveVars>>

(* The release that ends the drag.                                         *)
Flow_onMouseUp ==
    /\ variant = "flow"
    /\ isDragging
    /\ isDragging' = FALSE
    /\ draggedNodeId' = Null
    /\ UNCHANGED <<envVars, nodes, rendered, edges, dragOffset, listeners,
                   uuidCount, saveVars>>

FlowNext ==
    \/ \E t \in DropTags, p \in DropPoints : Flow_handleDrop(t, p)
    \/ \E a \in NodeIds, b \in NodeIds : Flow_onConnect(a, b)
    \/ \E id \in NodeIds, v \in NameInputs : CustomNode_onChange(id, v)
    \/ \E id \in NodeIds : CustomNode_handleBlur(id)
    \/ \E id \in NodeIds, ok \in BOOLEAN : handleDeleteClick(id, ok)
    \/ \E id \in NodeIds, pos \in FlowDragPositions :
            Flow_onNodesChange_position(id, pos)
    \/ \E id \in NodeIds : Flow_onNodesChange_remove(id)
    \/ \E id \in NodeIds, c \in CustomNode_classNames :
            CustomNode_onMouseDown(id, c)
    \/ Flow_onMouseUp

-----------------------------------------------------------------------------
(* JSON.  A JSON text is kept as the tree it denotes: a value is           *)
(* [kind, v], an object's v is the sequence of its members in the order    *)
(* they are written.                                                       *)

JNumber(n) == [kind |-> "number", v |-> n]
JString(str) == [kind |-> "string", v |-> str]
JBoolean(b) == [kind |-> "boolean", v |-> b]
JNull == [kind |-> "null", v |-> 0]
JUndefined == [kind |-> "undefined", v |-> 0]
JObject(members) == [kind |-> "object", v |-> members]
JArray(items) == [kind |-> "array", v |-> items]

(* Mutant of SerializeProperty: null is left out as undefined is.          *)
SerializeProperty_DropNull(key, val) ==
    IF val.kind \in {"undefined", "null"}
    THEN <<>> ELSE <<[key |-> key, val |-> val]>>

(* JSON.stringify of one property: a property whose value is undefined is  *)
(* left out, any other is written, null as null.                           *)
SerializeProperty(key, val) ==
    IF val.kind = "undefined" THEN <<>> ELSE <<[key |-> key, val |-> val]>>

(* A handle (null or a string) as a JSON value, and back.                  *)
HandleToJSON(h) ==
    IF h = JSUndefined THEN JUndefined
    ELSE IF h = NoHandle THEN JNull ELSE JString(h[1])

HandleFromJSON(j) ==
    IF j.kind = "undefined" THEN JSUndefined
    ELSE IF j.kind = "null" THEN NoHandle ELSE <<j.v>>

(* Mutant of PointToJSON: y is not written.                                *)
PointToJSON_XOnly(p) == JObject(SerializeProperty("x", JNumber(p.x)))

PointToJSON(p) ==
    JObject(SerializeProperty("x", JNumber(p.x))
            \o SerializeProperty("y", JNumber(p.y)))

(* Mutant of NodeToJSON: a dragging flag is written with every node.       *)
NodeToJSON_Dragging(n) ==
    JObject(SerializeProperty("id", JString(n.id))
            \o SerializeProperty("type", JString(n.type))
            \o SerializeProperty("position", PointToJSON(n.position))
            \o SerializeProperty("data",
                   JObject(SerializeProperty("label", JString(n.data.label))
                           \o SerializeProperty("name", JString(n.data.name))))
            \o SerializeProperty("width",
                   IF n.width = <<>> THEN JUndefined ELSE JNumber(n.width[1]))
            \o SerializeProperty("height",
                   IF n.height = <<>> THEN JUndefined ELSE JNumber(n.height[1]))
            \o SerializeProperty("dragging", JBoolean(FALSE)))

(* JSON.stringify of a node and of an edge of the export editor: every own *)
(* property of the object is written, those React Flow has added to the    *)
(* node included.                                                          *)
NodeToJSON(n) ==
    JObject(SerializeProperty("id", JString(n.id))
            \o SerializeProperty("type", JString(n.type))
            \o SerializeProperty("position", PointToJSON(n.position))
            \o SerializeProperty("data",
                   JObject(SerializeProperty("label", JString(n.data.label))
                           \o SerializeProperty("name", JString(n.data.name))))
            \o SerializeProperty("width",
                   IF n.width = Unset THEN JUndefined ELSE JNumber(n.width[1]))
            \o SerializeProperty("height",
                   IF n.height = Unset THEN JUndefined ELSE JNumber(n.height[1]))
            \o SerializeProperty("selected",
                   IF n.selected = Unset THEN JUndefined
                   ELSE JBoolean(n.selected[1]))
            \o SerializeProperty("positionAbsolute",
                   IF n.positionAbsolute = Unset THEN JUndefined
                   ELSE PointToJSON(n.positionAbsolute[1])))

EdgeToJSON(e) ==
    JObject(SerializeProperty("source", JString(e.source))
            \o SerializeProperty("sourceHandle", HandleToJSON(e.sourceHandle))
            \o SerializeProperty("target", JString(e.target))
            \o SerializeProperty("targetHandle", HandleToJSON(e.targetHandle))
            \o SerializeProperty("type", JString(e.type))
            \o SerializeProperty("animated", JBoolean(e.animated))
            \o SerializeProperty("id", JString(e.id)))

(* JSON.stringify({ nodes, edges }).                                       *)
JSONStringify(flowState) ==
    JObject(SerializeProperty("nodes",
                JArray([i \in 1..Len(flowState.nodes) |->
                            NodeToJSON(flowState.nodes[i])]))
            \o SerializeProperty("edges",
                JArray([i \in 1..Len(flowState.edges) |->
                            EdgeToJSON(flowState.edges[i])])))

(* Reading a property of a parsed object.                                  *)
JGet(obj, key) ==
    IF \E i \in 1..Len(obj.v) : obj.v[i].key = key
    THEN obj.v[CHOOSE i \in 1..Len(obj.v) : obj.v[i].key = key].val
    ELSE JUndefined

(* The value a scalar JSON value parses to.                                *)
JValue(j) == IF j.kind = "undefined" THEN JSUndefined ELSE j.v

PointFromJSON(j) ==
    [x |-> JValue(JGet(j, "x")), y |-> JValue(JGet(j, "y"))]

(* A property that may be missing from the parsed object.                  *)
OptionalFromJSON(j) == IF j.kind = "undefined" THEN Unset ELSE <<j.v>>

NodeFromJSON(j) ==
    [id       |-> JValue(JGet(j, "id")),
     type     |-> JValue(JGet(j, "type")),
     position |-> PointFromJSON(JGet(j, "position")),
     data     |-> [label |-> JValue(JGet(JGet(j, "data"), "label")),
                   name  |-> JValue(JGet(JGet(j, "data"), "name"))],
     width    |-> OptionalFromJSON(JGet(j, "width")),
     height   |-> OptionalFromJSON(JGet(j, "height")),
     selected |-> OptionalFromJSON(JGet(j, "selected")),
     positionAbsolute |->
         IF JGet(j, "positionAbsolute").kind = "undefined" THEN Unset
         ELSE <<PointFromJSON(JGet(j, "positionAbsolute"))>>]

EdgeFromJSON(j) ==
    [source       |-> JValue(JGet(j, "source")),
     sourceHandle |-> HandleFromJSON(JGet(j, "sourceHandle")),
     target       |-> JValue(JGet(j, "target")),
     targetHandle |-> HandleFromJSON(JGet(j, "targetHandle")),
     type         |-> JValue(JGet(j, "type")),
     animated     |-> JValue(JGet(j, "animated")),
     id           |-> JValue(JGet(j, "id"))]

(* JSON.parse of a saved text, read back as { nodes, edges }.              *)
JSONParse(j) ==
    LET ns == JGet(j, "nodes").v
        es == JGet(j, "edges").v
    IN  [nodes |-> [i \in 1..Len(ns) |-> NodeFromJSON(ns[i])],
         edges |-> [i \in 1..Len(es) |-> EdgeFromJSON(es[i])]]

-----------------------------------------------------------------------------
(* The export editor: FlowWrapper of part_002, lines 167-373.              *)

(* The node types the export editor registers.                            *)
CustomNodeTypes == {"company", "employee", "supplier"}

(* The payloads a drop can carry: a sidebar entity (onDragStart writes     *)
(* the three alike), one of another drag source, and none.                 *)
ExportPayloads ==
    {[type |-> "company", label |-> "Company"],
     [type |-> "widget", label |-> "Widget"],
     [type |-> "", label |-> ""]}

ExportNameInputs == {<<"Acme">>}

(* project(): pointToRendererPoint under the current viewport.             *)
project(p, vp) == pointToRendererPoint(p, vp)

(* getEdgeId: the id addEdge gives a connection that has none.             *)
getEdgeId(c) ==
    <<"reactflow__edge", c.source,
      IF Falsy(c.sourceHandle) THEN <<"">> ELSE c.sourceHandle,
      c.target,
      IF Falsy(c.targetHandle) THEN <<"">> ELSE c.targetHandle>>

(* addEdge for a connection without an id.                                 *)
addEdgeConnection(c, eds) ==
    addEdge([source       |-> c.source,
             sourceHandle |-> c.sourceHandle,
             target       |-> c.target,
             targetHandle |-> c.targetHandle,
             type         |-> c.type,
             animated     |-> c.animated,
             id           |-> getEdgeId(c)], eds)

(* onConnect of the export editor; its Handles have no id.                 *)
onConnectEdges(eds, connection) ==
    addEdgeConnection([source       |-> connection.source,
                       sourceHandle |-> connection.sourceHandle,
                       target       |-> connection.target,
                       targetHandle |-> connection.targetHandle,
                       type         |-> "customEdge",
                       animated     |-> TRUE], eds)

(* Every node on the canvas has been measured.  React Flow measures a     *)
(* node when it is first rendered and reports the size before the next     *)
(* input event is taken.                                                   *)
Measured(nds) == \A i \in 1..Len(nds) : nds[i].width # Unset

onConnect(source, target) ==
    /\ variant = "export"
    /\ Measured(nodes)
    /\ canvasRect # Null
    /\ ~isModalOpen
    /\ Len(edges) < MaxEdges
    /\ source \in NodeIds /\ target \in NodeIds
    /\ edges' = onConnectEdges(edges,
                    [source |-> source, sourceHandle |-> NoHandle,
                     target |-> target, targetHandle |-> NoHandle])
    /\ UNCHANGED <<envVars, nodes, rendered, dragVars, uuidCount, saveVars>>

(* What the node components show after a commit of nds in which the nodes  *)
(* named in changed got a new object: React Flow renders a node again when *)
(* its object is a new one, and a node it has not shown for the first      *)
(* time; the others stay as they were rendered.                            *)
Rerender(shown, nds, changed) ==
    [j \in 1..Len(nds) |->
        IF nds[j].id \notin changed
           /\ \E i \in 1..Len(shown) : shown[i].id = nds[j].id
        THEN shown[CHOOSE i \in 1..Len(shown) : shown[i].id = nds[j].id]
        ELSE nds[j]]

(* onDrop of the export editor.                                            *)
onDropNodes(nds, type, label, p, rect, vp, count) ==
    IF type = "" \/ label = "" \/ rect = Null
    THEN nds
    ELSE LET position == project(Point(p.x - rect.left, p.y - rect.top), vp)
             newNode == [id       |-> <<randomUUID(count)>>,
                         type     |-> type,
                         position |-> position,
                         data     |-> [label |-> label,
                                       name  |-> <<label, " ", "1">>],
                         width    |-> Unset,
                         height   |-> Unset,
                         selected |-> Unset,
                         positionAbsolute |-> Unset]
         IN  Append(nds, newNode)

onDrop(payload, p) ==
    /\ variant = "export"
    /\ Measured(nodes)
    /\ ~isModalOpen
    /\ Len(nodes) < MaxNodes /\ uuidCount < MaxUuid
    /\ nodes' = onDropNodes(nodes, payload.type, payload.label, p, canvasRect,
                            viewport, uuidCount)
    /\ uuidCount' = IF Len(nodes') > Len(nodes) THEN uuidCount + 1 ELSE uuidCount
    /\ rendered' = Rerender(rendered, nodes', {})
    /\ UNCHANGED <<envVars, edges, dragVars, saveVars>>

(* The EntityNode input's onChange: data.name = e.target.value, written    *)
(* into the node object the store holds.  No state is set, so nothing is   *)
(* rendered: the controlled input goes on showing the name it was last     *)
(* rendered with.                                                          *)
EntityNode_onChange(id, value) ==
    /\ variant = "export"
    /\ Measured(nodes)
    /\ canvasRect # Null
    /\ ~isModalOpen
    /\ id \in NodeIds
    /\ nodes' = [i \in 1..Len(nodes) |->
                    IF nodes[i].id = id
                    THEN [nodes[i] EXCEPT !.data =
                              [nodes[i].data EXCEPT !.name = value]]
                    ELSE nodes[i]]
    /\ UNCHANGED <<envVars, rendered, edges, dragVars, uuidCount, saveVars>>

(* onNodesChange (applyNodeChanges) for the position change of a drag.     *)
onNodesChange_position(id, pos) ==
    /\ variant = "export"
    /\ Measured(nodes)
    /\ canvasRect # Null
    /\ ~isModalOpen
    /\ id \in NodeIds
    /\ nodes' = applyPositionAbsolute(nodes, id, pos)
    /\ rendered' = Rerender(rendered, nodes', {id})
    /\ UNCHANGED <<envVars, edges, dragVars, uuidCount, saveVars>>

(* onNodesChange for the dimensions change React Flow raises once it has   *)
(* rendered and measured a new node.                                       *)
onNodesChange_dimensions(id) ==
    /\ variant = "export"
    /\ canvasRect # Null
    /\ id \in NodeIds
    /\ \E i \in 1..Len(nodes) : nodes[i].id = id /\ nodes[i].width = Unset
    /\ nodes' = applyDimensions(nodes, id, MeasuredWidth, MeasuredHeight)
    /\ rendered' = Rerender(rendered, nodes', {id})
    /\ UNCHANGED <<envVars, edges, dragVars, uuidCount, saveVars>>

(* onNodesChange for the select changes of a click on node id: the node is *)
(* selected and the ones selected before it are not any more.              *)
onNodesChange_select(id) ==
    /\ variant = "export"
    /\ Measured(nodes)
    /\ canvasRect # Null
    /\ ~isModalOpen
    /\ id \in NodeIds
    /\ \E i \in 1..Len(nodes) : nodes[i].id = id /\ nodes[i].selected # <<TRUE>>
    /\ nodes' = applySelect(nodes, {id},
                    {nodes[i].id : i \in {j \in 1..Len(nodes) :
                                            nodes[j].selected = <<TRUE>>}})
    /\ rendered' = Rerender(rendered, nodes', {id} \cup {nodes[i].id : i \in {j \in 1..Len(nodes) :
                                    nodes[j].selected = <<TRUE>>}})
    /\ UNCHANGED <<envVars, edges, dragVars, uuidCount, saveVars>>

(* onEdgesChange and onNodesChange for the remove changes of a keyboard    *)
(* delete of node id.                                                      *)
onNodesChange_remove(id) ==
    /\ variant = "export"
    /\ Measured(nodes)
    /\ canvasRect # Null
    /\ ~isModalOpen
    /\ id \in NodeIds
    /\ edges' = applyRemove(edges, getConnectedEdges({id}, edges))
    /\ nodes' = applyRemove(nodes, {id})
    /\ rendered' = Rerender(rendered, nodes', {})
    /\ UNCHANGED <<envVars, dragVars, uuidCount, saveVars>>

(* handleSave, with the outcome of navigator.clipboard.writeText; the      *)
(* messages are kept without the counts the success message quotes.  The   *)
(* notification it opens covers the page until it is closed.               *)
handleSave(written) ==
    /\ variant = "export"
    /\ Measured(nodes)
    /\ canvasRect # Null
    /\ ~isModalOpen
    /\ IF Len(nodes) = 0
       THEN /\ modalMessage' = <<"Cannot save. The canvas is empty.">>
            /\ copied' = <<>>
       ELSE LET flowState == [nodes |-> nodes, edges |-> edges]
                flowJSON == JSONStringify(flowState)
            IN  IF written
                THEN /\ copied' = <<flowJSON>>
                     /\ modalMessage' = <<"Success! Copied to clipboard as JSON.">>
                ELSE /\ copied' = <<>>
                     /\ modalMessage' = <<"Error: Failed to copy to clipboard.">>
    /\ isModalOpen' = TRUE
    /\ UNCHANGED <<envVars, nodes, rendered, edges, dragVars, uuidCount>>

(* Either button of the notification: setIsModalOpen(false).               *)
Modal_onClick ==
    /\ variant = "export"
    /\ Measured(nodes)
    /\ canvasRect # Null
    /\ isModalOpen
    /\ isModalOpen' = FALSE
    /\ copied' = <<>>
    /\ UNCHANGED <<envVars, nodes, rendered, edges, dragVars, uuidCount, modalMessage>>

ExportNext ==
    \/ \E payload \in ExportPayloads, p \in DropPoints : onDrop(payload, p)
    \/ \E a \in NodeIds, b \in NodeIds : onConnect(a, b)
    \/ \E id \in NodeIds, v \in ExportNameInputs : EntityNode_onChange(id, v)
    \/ \E id \in NodeIds, pos \in FlowDragPositions : onNodesChange_position(id, pos)
    \/ \E id \in NodeIds : onNodesChange_dimensions(id)
    \/ \E id \in NodeIds : onNodesChange_select(id)
    \/ \E id \in NodeIds : onNodesChange_remove(id)
    \/ \E written \in BOOLEAN : handleSave(written)
    \/ Modal_onClick

-----------------------------------------------------------------------------
(* The sample flow: FlowComponent of part_001, on @xyflow/react.  Its ids  *)
(* '1', '2', '3' are kept as the numbers they spell.                       *)

(* A node without a type is rendered as a 'default' node.                  *)
initialNodes ==
    <<[id |-> <<1>>, type |-> "input",
       data |-> [label |-> "A: Start Process"], position |-> Point(50, 50)],
      [id |-> <<2>>, type |-> "default",
       data |-> [label |-> "B: Middle Step"], position |-> Point(50, 150)],
      [id |-> <<3>>, type |-> "output",
       data |-> [label |-> "C: End Result"], position |-> Point(50, 250)]>>

initialEdges ==
    <<[id |-> <<"e1-2">>, source |-> <<1>>, target |-> <<2>>,
       sourceHandle |-> Unset, targetHandle |-> Unset,
       label |-> <<"Flows to">>, animated |-> <<TRUE>>, type |-> Unset],
      [id |-> <<"e2-3">>, source |-> <<2>>, target |-> <<3>>,
       sourceHandle |-> Unset, targetHandle |-> Unset,
       label |-> Unset, animated |-> Unset, type |-> <<"step">>]>>

(* The built-in node types: an input node has a source handle only, an     *)
(* output node a target handle only, a default node both.                  *)
HasSourceHandle(n) == n.type \in {"input", "default"}
HasTargetHandle(n) == n.type \in {"default", "output"}

(* getEdgeId of @xyflow/react.                                             *)
Sample_getEdgeId(c) ==
    <<"xy-edge", c.source,
      IF Falsy(c.sourceHandle) THEN <<"">> ELSE c.sourceHandle,
      c.target,
      IF Falsy(c.targetHandle) THEN <<"">> ELSE c.targetHandle>>

(* onConnect: addEdge(connection, eds); a handle that is null is left off  *)
(* the edge.                                                               *)
Sample_onConnectEdges(eds, connection) ==
    addEdge([id           |-> Sample_getEdgeId(connection),
             source       |-> connection.source,
             target       |-> connection.target,
             sourceHandle |-> connection.sourceHandle,
             targetHandle |-> connection.targetHandle,
             label        |-> Unset,
             animated     |-> Unset,
             type         |-> Unset], eds)

(* A connection the user draws from the source handle of one rendered node *)
(* to the target handle of another or of the same; the built-in nodes'     *)
(* handles have no id.                                                     *)
Sample_onConnect(source, target) ==
    /\ variant = "sample"
    /\ canvasRect # Null
    /\ source \in NodeIds /\ target \in NodeIds
    /\ HasSourceHandle(NodeById(source)) /\ HasTargetHandle(NodeById(target))
    /\ edges' = Sample_onConnectEdges(edges,
                    [source |-> source, sourceHandle |-> NoHandle,
                     target |-> target, targetHandle |-> NoHandle])
    /\ UNCHANGED <<envVars, nodes, rendered, dragVars, uuidCount, saveVars>>

(* onNodesChange for the position change of a drag.                        *)
Sample_onNodesChange_position(id, pos) ==
    /\ variant = "sample"
    /\ canvasRect # Null
    /\ id \in NodeIds
    /\ nodes' = applyPosition(nodes, id, pos)
    /\ rendered' = nodes'
    /\ UNCHANGED <<envVars, edges, dragVars, uuidCount, saveVars>>

(* onEdgesChange and onNodesChange for the remove changes of a keyboard    *)
(* delete of node id.                                                      *)
Sample_onNodesChange_remove(id) ==
    /\ variant = "sample"
    /\ canvasRect # Null
    /\ id \in NodeIds
    /\ edges' = applyRemove(edges, getConnectedEdges({id}, edges))
    /\ nodes' = applyRemove(nodes, {id})
    /\ rendered' = nodes'
    /\ UNCHANGED <<envVars, dragVars, uuidCount, saveVars>>

SampleNext ==
    \/ \E a \in NodeIds, b \in NodeIds : Sample_onConnect(a, b)
    \/ \E id \in NodeIds, pos \in FlowDragPositions :
            Sample_onNodesChange_position(id, pos)
    \/ \E id \in NodeIds : Sample_onNodesChange_remove(id)

-----------------------------------------------------------------------------
Variants == {"basic", "flow", "export", "sample"}

Init ==
    /\ variant \in Variants
    /\ nodes = (IF variant = "sample" THEN initialNodes ELSE <<>>)
    /\ rendered = nodes
    /\ edges = (IF variant = "sample" THEN initialEdges ELSE <<>>)
    /\ isDragging = FALSE
    /\ draggedNodeId = Null
    /\ dragOffset = Point(0, 0)
    /\ listeners = NoListeners
    /\ canvasRect \in CanvasOrigins
    /\ variant \in {"export", "sample"} => canvasRect.left = 120
    /\ viewport = (IF variant = "basic" \/ canvasRect.left = 20
                   THEN Identity ELSE Zoomed)
    /\ uuidCount = 0
    /\ isModalOpen = FALSE
    /\ modalMessage = <<>>
    /\ copied = <<>>

Next == BasicNext \/ FlowNext \/ ExportNext \/ SampleNext \/ Unmount

Spec == Init /\ [][Next]_vars

InitBasic == Init /\ variant = "basic"
NextBasic == BasicNext \/ Unmount
SpecBasic == InitBasic /\ [][NextBasic]_vars

(* The basic editor with a user who lets go of the button: a release       *)
(* reaches handleMouseUp wherever the pointer is, the listener being on    *)
(* the window.                                                             *)
LiveBasic == SpecBasic /\ WF_vars(handleMouseUp)

(* The basic editor with React running the cleanups it has scheduled.      *)
LiveEffects == SpecBasic /\ WF_vars(useEffect_cleanup)

InitFlow == Init /\ variant = "flow"
NextFlow == FlowNext \/ Unmount
SpecFlow == InitFlow /\ [][NextFlow]_vars

InitExport == Init /\ variant = "export"
NextExport == ExportNext \/ Unmount
SpecExport == InitExport /\ [][NextExport]_vars

InitSample == Init /\ variant = "sample"
NextSample == SampleNext \/ Unmount
SpecSample == InitSample /\ [][NextSample]_vars

-----------------------------------------------------------------------------
(* The claims.                                                             *)

EdgesReferencing(eds, id) ==
    {i \in 1..Len(eds) : eds[i].source = id \/ eds[i].target = id}

(* C1: in every reachable state of the flow editor, whatever drops,        *)
(* connects, renames, moves and deletes led to it, the source and the      *)
(* target of every edge are ids of nodes in the node collection.           *)
C1_NoDanglingEdge ==
    \A i \in 1..Len(edges) :
        edges[i].source \in NodeIds /\ edges[i].target \in NodeIds

(* An edge survives the deletion of the first node ever dropped.           *)
C1_Witness ==
    /\ variant = "flow"
    /\ Len(edges) > 0
    /\ <<"node", 1>> \notin NodeIds

(* C2: a delete click that is confirmed leaves no node with the deleted    *)
(* id and no edge whose source or target is that id.                       *)
C2_CascadeComplete ==
    [][\A id \in NodeIds :
          handleDeleteClick(id, TRUE) =>
              /\ id \notin NodeIds'
              /\ EdgesReferencing(edges', id) = {}]_vars

(* The first node was deleted after the second was dropped and an edge     *)
(* drawn: the second node is left alone, with no edge.                     *)
C2_Witness ==
    /\ variant = "flow"
    /\ uuidCount = 3
    /\ NodeIds = {<<"node", 2>>}
    /\ edges = <<>>

NodeIdsDistinct ==
    \A i, j \in 1..Len(nodes) : i # j => nodes[i].id # nodes[j].id

(* C3: in all three editors the ids of the nodes on the canvas are         *)
(* pairwise distinct after every event, and a node that an event adds      *)
(* carries a UUID drawn after every UUID drawn before the event, so that   *)
(* the id of a deleted node is never given out again.                      *)
C3_IdsNeverReused ==
    [][/\ NodeIdsDistinct'
       /\ \A i \in 1..Len(nodes') :
            nodes'[i].id \notin NodeIds => UuidOf(nodes'[i].id) > uuidCount]_vars

(* Two nodes dropped after the first node was deleted.                     *)
C3_Witness ==
    /\ variant = "flow"
    /\ Len(nodes) = 2
    /\ <<"node", 1>> \notin NodeIds

(* C4: a rename whose new name is empty after trimming, or equal to the    *)
(* current name, leaves the name unchanged, on the onChange path and on    *)
(* the blur path.                                                          *)
C4_RenameNoOp ==
    [][\A i \in 1..Len(nodes) :
          LET id == nodes[i].id
              name == nodes[i].name
          IN  /\ \A v \in NameInputs :
                    (DiagramNode_onChange(id, v) /\ (Trim(v) = <<>> \/ v = name))
                        => nodes'[i].name = name
              /\ (DiagramNode_handleBlur(id)
                    /\ (Trim(name) = <<>> \/ Trim(name) = name))
                        => nodes'[i].name = name]_vars

(* C5: in the basic editor a drop of a registered tag t at pointer p       *)
(* appends exactly one node, of type t, named by the registry, at          *)
(* max(0, p - origin - 30) in both coordinates; Supplier at (130,130) over *)
(* the origin (20,20) lands at (80,80) named "New Supplier".               *)
C5_DropAppendsNode ==
    [][\A t \in EntityTypes, p \in DropPoints :
          handleDrop(t, p) =>
              /\ Len(nodes') = Len(nodes) + 1
              /\ SubSeq(nodes', 1, Len(nodes)) = nodes
              /\ LET n == nodes'[Len(nodes')]
                     dx == p.x - canvasRect.left - 30
                     dy == p.y - canvasRect.top - 30
                 IN  /\ n.type = t
                     /\ n.name = ENTITY_CONFIG[t].initialName
                     /\ n.x = (IF dx < 0 THEN 0 ELSE dx)
                     /\ n.y = (IF dy < 0 THEN 0 ELSE dy)
                     /\ (t = "Supplier" /\ p = Point(130, 130)
                            /\ canvasRect = [left |-> 20, top |-> 20])
                          => /\ n.x = 80 /\ n.y = 80
                             /\ n.name = <<"New", " ", "Supplier">>]_vars

(* A Supplier dropped at (130,130) over the origin (20,20), and a node     *)
(* whose position was clamped to 0.                                        *)
C5_Witness ==
    /\ variant = "basic"
    /\ \/ /\ canvasRect = [left |-> 20, top |-> 20]
          /\ \E i \in 1..Len(nodes) :
                /\ nodes[i].type = "Supplier"
                /\ nodes[i].name = <<"New", " ", "Supplier">>
                /\ nodes[i].x = 80 /\ nodes[i].y = 80
       \/ /\ canvasRect = [left |-> 120, top |-> 120]
          /\ \E i \in 1..Len(nodes) : nodes[i].x = 0 /\ nodes[i].y = 0

(* C6: a press on a node captures the vector from the node's top-left      *)
(* corner to the press point, and while dragging every pointer move at p   *)
(* over the mounted canvas puts the dragged node at p - origin - that      *)
(* vector; offset (15,10) and p - origin = (200,200) give (185,190).       *)
C6_DragFollowsPointer ==
    [][/\ \A id \in NodeIds, o \in PressOffsets :
            handleNodeDragStart(id, o) =>
                /\ dragOffset' = o
                /\ draggedNodeId' = id
                /\ isDragging'
       /\ \A p \in MovePoints :
            (canvasRect # Null /\ isDragging /\ handleMouseMove(p)) =>
                \A i \in 1..Len(nodes) :
                    nodes[i].id = draggedNodeId =>
                        /\ nodes'[i].x = p.x - canvasRect.left - dragOffset.x
                        /\ nodes'[i].y = p.y - canvasRect.top - dragOffset.y
                        /\ (dragOffset = Point(15, 10)
                              /\ p.x - canvasRect.left = 200
                              /\ p.y - canvasRect.top = 200)
                            => (nodes'[i].x = 185 /\ nodes'[i].y = 190)]_vars

(* A drag in progress with offset (15,10) has put the node at (185,190).   *)
C6_Witness ==
    /\ variant = "basic"
    /\ canvasRect # Null
    /\ isDragging
    /\ dragOffset = Point(15, 10)
    /\ \E i \in 1..Len(nodes) :
          /\ nodes[i].id = draggedNodeId
          /\ nodes[i].x = 185 /\ nodes[i].y = 190

SameConnection(e, source, sourceHandle, target, targetHandle) ==
    /\ e.source = source /\ e.target = target
    /\ e.sourceHandle = sourceHandle /\ e.targetHandle = targetHandle

(* What a connect leaves when it adds one edge from a to b.                *)
AddsOneEdge(a, sh, b, th) ==
    /\ Len(edges') = Len(edges) + 1
    /\ SubSeq(edges', 1, Len(edges)) = edges
    /\ SameConnection(edges'[Len(edges')], a, sh, b, th)

C8_DeleteFrame ==
    [][\A id \in NodeIds :
          handleDeleteClick(id, TRUE) =>
              /\ nodes' = SelectSeq(nodes, LAMBDA n : n.id # id)
              /\ Len(nodes') = Len(nodes) - 1
              /\ edges' = SelectSeq(edges,
                              LAMBDA e : e.source # id /\ e.target # id)]_vars

(* The first node is gone; the second node and its self-loop are left.     *)
C8_Witness ==
    /\ variant = "flow"
    /\ NodeIds = {<<"node", 2>>}
    /\ Len(edges) = 1
    /\ edges[1].id = <<"edge", 3>>

(* C9: in every reachable state a pointer move applied twice, with the     *)
(* same pointer, origin and offset, leaves the nodes the first application *)
(* left.                                                                   *)
C9_MoveIdempotent ==
    \A p \in MovePoints :
        LET once == handleMouseMoveNodes(nodes, p, canvasRect, isDragging,
                                         draggedNodeId, dragOffset)
            twice == handleMouseMoveNodes(once, p, canvasRect, isDragging,
                                          draggedNodeId, dragOffset)
        IN  twice = once

(* A drag in progress has moved its node to one pointer position, and a    *)
(* move to another would displace it again.                                *)
C9_Witness ==
    /\ variant = "basic"
    /\ canvasRect # Null
    /\ isDragging
    /\ draggedNodeId \in NodeIds
    /\ \E p \in MovePoints :
          /\ NodeById(draggedNodeId).x = p.x - canvasRect.left - dragOffset.x
          /\ NodeById(draggedNodeId).y = p.y - canvasRect.top - dragOffset.y
    /\ \E p \in MovePoints :
          handleMouseMoveNodes(nodes, p, canvasRect, isDragging,
                               draggedNodeId, dragOffset) # nodes

(* C11: in the basic and the flow editor a drop whose tag is missing or is *)
(* any string other than Company, Employee and Supplier creates no node    *)
(* and leaves the nodes and the edges as they were.                        *)
C11_UnknownTagNoNode ==
    [][\A t \in DropTags \ EntityTypes, p \in DropPoints :
          (handleDrop(t, p) \/ Flow_handleDrop(t, p)) =>
              nodes' = nodes /\ edges' = edges]_vars

(* C12: in the export editor a drop whose type tag is missing or is not    *)
(* one of company, employee and supplier creates no node.                  *)
C12_UnregisteredTypeNoNode ==
    [][\A payload \in ExportPayloads, p \in DropPoints :
          (onDrop(payload, p) /\ payload.type \notin CustomNodeTypes) =>
              nodes' = nodes]_vars

(* C13: when the canvas cannot be resolved (canvasRef.current is null, the *)
(* wrapper has no bounding rectangle), a drop creates no node and a        *)
(* pointer move during a drag moves no node: nodes and edges are left as   *)
(* they were.                                                              *)
C13_UnresolvedOriginNoOp ==
    [][(/\ canvasRect = Null
        /\ \/ \E t \in DropTags, p \in DropPoints :
                  handleDrop(t, p) \/ Flow_handleDrop(t, p)
           \/ \E payload \in ExportPayloads, p \in DropPoints : onDrop(payload, p)
           \/ \E p \in MovePoints : isDragging /\ handleMouseMove(p))
          => (nodes' = nodes /\ edges' = edges)]_vars

(* The editor was unmounted during a drag, and a pointer now arrives that  *)
(* would displace the dragged node if the canvas were taken to be at the   *)
(* origin.                                                                 *)
C13_Witness ==
    /\ variant = "basic"
    /\ canvasRect = Null
    /\ ~RenderThrows(nodes)
    /\ isDragging /\ draggedNodeId \in NodeIds
    /\ \E p \in MovePoints :
          handleMouseMoveNodes_NoRefTest(nodes, p, canvasRect, isDragging,
                                         draggedNodeId, dragOffset) # nodes

(* C14: in the basic editor the x and the y of every node are              *)
(* non-negative in every reachable state.                                  *)
C14_NonNegative ==
    variant = "basic" =>
        \A i \in 1..Len(nodes) : nodes[i].x >= 0 /\ nodes[i].y >= 0

(* The position a drop gives a node under the current canvas.              *)
DropPosition(p) ==
    Point(Max(0, p.x - canvasRect.left - 30), Max(0, p.y - canvasRect.top - 30))

Moved(n) == \A p \in DropPoints : Point(n.x, n.y) # DropPosition(p)

(* C15: a press on a node during a drag replaces the dragged id and the    *)
(* captured offset, and a pointer move changes no node but the one         *)
(* pressed last, so that at most one node is dragged at any time.          *)
C15_SingleDrag ==
    [][/\ \A id \in NodeIds, o \in PressOffsets \cup InputPressOffsets :
            (isDragging /\ handleNodeDragStart(id, o)) =>
                /\ isDragging'
                /\ draggedNodeId' = id
                /\ dragOffset' = o
                /\ nodes' = nodes
       /\ \A p \in MovePoints :
            handleMouseMove(p) =>
                /\ Len(nodes') = Len(nodes)
                /\ \A i \in 1..Len(nodes) :
                      nodes[i].id # draggedNodeId => nodes'[i] = nodes[i]]_vars

(* Both nodes have been dragged away from where they were dropped, and     *)
(* the second is the one being dragged.                                    *)
C15_Witness ==
    /\ variant = "basic"
    /\ canvasRect # Null
    /\ isDragging
    /\ Len(nodes) = 2
    /\ draggedNodeId = nodes[2].id
    /\ Moved(nodes[1]) /\ Moved(nodes[2])

(* The controller is in Dragging.                                          *)
Dragging == canvasRect # Null /\ isDragging

(* C16: a release during a drag, wherever the pointer is, leaves the       *)
(* controller Idle (isDragging false, dragged id null); while it is Idle   *)
(* no step changes the position of a node; and if releases occur, every    *)
(* drag comes to an end.                                                   *)
C16_ReleaseEndsDrag ==
    /\ [][handleMouseUp => (~isDragging' /\ draggedNodeId' = Null)]_vars
    /\ [][~isDragging =>
            \A i \in 1..Len(nodes) :
                nodes'[i].x = nodes[i].x /\ nodes'[i].y = nodes[i].y]_vars
    /\ (Dragging ~> ~Dragging)

(* The controller is Idle again after a drag that moved a node.            *)
C16_Witness ==
    /\ variant = "basic"
    /\ canvasRect # Null
    /\ ~isDragging /\ draggedNodeId = Null
    /\ dragOffset \in PressOffsets
    /\ \E i \in 1..Len(nodes) : Moved(nodes[i])

(* C17: a press on the name input of a node never takes the controller     *)
(* from Idle to Dragging.                                                  *)
C17_InputPressNoDrag ==
    [][\A id \in NodeIds, o \in InputPressOffsets :
          (~isDragging /\ DiagramNode_input_onMouseDown(id, o)) =>
              ~isDragging']_vars

C19_NoDanglingObserved ==
    \A id \in NodeIds :
        LET steps == handleNodeDeleteSteps(edges, nodes, id)
        IN  \A k \in 1..Len(steps) :
                (\A j \in 1..Len(steps[k].nodes) : steps[k].nodes[j].id # id)
                    => EdgesReferencing(steps[k].edges, id) = {}

(* Two nodes joined by an edge: the delete of either has an edge to        *)
(* remove before the node goes.                                            *)
C19_Witness ==
    /\ variant = "flow"
    /\ canvasRect # Null
    /\ Len(nodes) = 2
    /\ \E i \in 1..Len(edges) : edges[i].source # edges[i].target

(* Ids that no node carries: the generator never yields the UUID 0.        *)
AbsentIds == {<<"node", 0>>, <<0>>}

(* C20: a connect whose source id or target id is not the id of a node in  *)
(* the graph adds no edge: in every reachable state the connect handler of *)
(* the flow editor and of the export editor returns the edges it was       *)
(* given.                                                                  *)
C20_InvalidEndpointNoEdge ==
    \A source \in NodeIds \cup AbsentIds, target \in NodeIds \cup AbsentIds :
        (source \notin NodeIds \/ target \notin NodeIds) =>
            /\ variant = "flow" =>
                  Flow_onConnectEdges(edges,
                      [source |-> source, sourceHandle |-> <<"b">>,
                       target |-> target, targetHandle |-> <<"a">>],
                      uuidCount) = edges
            /\ variant = "export" =>
                  onConnectEdges(edges,
                      [source |-> source, sourceHandle |-> NoHandle,
                       target |-> target, targetHandle |-> NoHandle]) = edges

(* C10: the text a successful save of a non-empty canvas copies parses     *)
(* back to the nodes (ids, types, names, positions, in order) and the      *)
(* edges (ids, endpoints, handles) the canvas holds at the save.           *)
C10_SaveRoundTrip ==
    [][\A written \in BOOLEAN :
          (handleSave(written) /\ copied' # <<>>) =>
              JSONParse(copied'[1]) = [nodes |-> nodes, edges |-> edges]]_vars

(* A saved text that holds two nodes, one renamed, and an edge.            *)
C10_Witness ==
    /\ variant = "export"
    /\ copied # <<>>
    /\ Len(nodes) = 2 /\ Len(edges) >= 1
    /\ \E i \in 1..Len(nodes) : nodes[i].data.name = <<"Acme">>

(* C21: a move, and a rename, applied with an id that no node carries      *)
(* leaves the node collection as it is, element for element, in every      *)
(* reachable state of the basic and of the flow editor.                    *)
C21_AbsentIdNoOp ==
    \A id \in AbsentIds :
        /\ (variant = "basic" /\ canvasRect # Null) =>
              \A p \in MovePoints, o \in PressOffsets :
                  handleMouseMoveNodes(nodes, p, canvasRect, TRUE, id, o) = nodes
        /\ variant = "basic" =>
              \A v \in NameInputs : handleNameChangeNodes(nodes, id, v) = nodes
        /\ variant = "flow" =>
              \A v \in NameInputs : Flow_handleNameChangeNodes(nodes, id, v) = nodes

(* Two nodes on the mounted canvas of the basic editor, where a move with  *)
(* the id of either would displace it.                                     *)
C21_Witness ==
    /\ variant = "basic"
    /\ canvasRect # Null
    /\ Len(nodes) = 2
    /\ \A i \in 1..Len(nodes) : \E p \in MovePoints, o \in PressOffsets :
          handleMouseMoveNodes(nodes, p, canvasRect, TRUE, nodes[i].id, o) # nodes

(* The names of the properties a JSON object is written with.              *)
JKeys(obj) == {obj.v[i].key : i \in 1..Len(obj.v)}

C23_ExportedFields ==
    copied # <<>> =>
        LET ns == JGet(copied[1], "nodes").v
            es == JGet(copied[1], "edges").v
        IN  /\ \A i \in 1..Len(ns) :
                  /\ JGet(ns[i], "id").kind = "string"
                  /\ JGet(ns[i], "type").kind = "string"
                  /\ JGet(ns[i], "position").kind = "object"
                  /\ JGet(JGet(ns[i], "position"), "x").kind = "number"
                  /\ JGet(JGet(ns[i], "position"), "y").kind = "number"
                  /\ JGet(ns[i], "data").kind = "object"
                  /\ JGet(JGet(ns[i], "data"), "name").kind = "string"
                  /\ JGet(JGet(ns[i], "data"), "label").kind = "string"
            /\ \A i \in 1..Len(es) :
                  /\ JGet(es[i], "id").kind = "string"
                  /\ JGet(es[i], "source").kind = "string"
                  /\ JGet(es[i], "target").kind = "string"
                  /\ JGet(es[i], "sourceHandle").kind \in {"string", "null"}
                  /\ JGet(es[i], "targetHandle").kind \in {"string", "null"}
                  /\ JGet(es[i], "type").kind = "string"
                  /\ JGet(es[i], "animated").kind = "boolean"

(* A saved text with two nodes, one of them of a type the editor does not  *)
(* register, and two edges, one of them a loop.                            *)
C23_Witness ==
    /\ copied # <<>>
    /\ LET ns == JGet(copied[1], "nodes").v
           es == JGet(copied[1], "edges").v
       IN  /\ Len(ns) = 2 /\ Len(es) = 2
           /\ \E i \in 1..Len(ns) : JGet(ns[i], "type").v = "widget"
           /\ \E i \in 1..Len(es) : JGet(es[i], "source").v = JGet(es[i], "target").v

(* C24: in every reachable state of the basic and of the flow editor the   *)
(* editor is still mounted unless its host removed it, and every node has  *)
(* a type that is an entry of the registry, so that rendering it raises no *)
(* error.                                                                  *)
C24_EveryNodeRegistered ==
    variant \in {"basic", "flow"} =>
        \A i \in 1..Len(nodes) : nodes[i].type \in DOMAIN ENTITY_CONFIG

(* C25: in every reachable state the node objects the node components     *)
(* show are the node objects of the store: no edit has changed a stored    *)
(* node without a store update that renders it.                            *)
C25_StoreIsWhatIsShown == rendered = nodes

(* The ids of a node list, in its order, and those of them that are in S.  *)
IdSeq(nds) == [i \in 1..Len(nds) |-> nds[i].id]
IdSeqWithin(nds, S) == SelectSeq(IdSeq(nds), LAMBDA id : id \in S)

(* C26: the node collection keeps insertion order.  Every step of every    *)
(* editor leaves the nodes that stay in the order they were in, and a step *)
(* that adds a node adds one node, after all the others.                   *)
C26_InsertionOrder ==
    [][/\ IdSeqWithin(nodes', NodeIds) =
              IdSeqWithin(nodes, {nodes'[j].id : j \in 1..Len(nodes')})
       /\ Len(nodes') > Len(nodes) =>
              /\ Len(nodes') = Len(nodes) + 1
              /\ SubSeq(IdSeq(nodes'), 1, Len(nodes)) = IdSeq(nodes)
              /\ nodes'[Len(nodes')].id \notin NodeIds]_vars

(* The first node dropped was deleted, a third was dropped after it, and   *)
(* the second, now first, was renamed and moved.                           *)
C26_Witness ==
    /\ variant = "flow"
    /\ Len(nodes) = 2
    /\ UuidOf(nodes[1].id) > 1
    /\ UuidOf(nodes[2].id) > UuidOf(nodes[1].id)
    /\ nodes[1].position \in FlowDragPositions
    /\ nodes[1].data.name = <<"A", " ">>

(* The edges the connect handler of the running editor returns for the     *)
(* connection c.                                                           *)
ConnectEdges(c) ==
    CASE variant = "flow" -> Flow_onConnectEdges(edges, c, uuidCount)
      [] variant = "export" -> onConnectEdges(edges, c)
      [] variant = "sample" -> Sample_onConnectEdges(edges, c)
      [] OTHER -> edges

ConnectionOf(e) ==
    [source |-> e.source, sourceHandle |-> e.sourceHandle,
     target |-> e.target, targetHandle |-> e.targetHandle]

(* The loop a user can draw on node a: from its source handle to its       *)
(* target handle.                                                          *)
LoopOn(a) ==
    IF variant = "flow"
    THEN [source |-> a, sourceHandle |-> <<"b">>,
          target |-> a, targetHandle |-> <<"a">>]
    ELSE [source |-> a, sourceHandle |-> NoHandle,
          target |-> a, targetHandle |-> NoHandle]

EdgeIdsDistinct ==
    \A i, j \in 1..Len(edges) : i # j => edges[i].id # edges[j].id

C28_NoJump ==
    (variant = "basic" /\ canvasRect # Null) =>
        \A i \in 1..Len(nodes), o \in PressOffsets \cup InputPressOffsets :
            LET rect == NodeRect(nodes[i])
                client == Point(rect.left + o.x, rect.top + o.y)
                offset == handleNodeDragStartOffset(client, rect)
            IN  handleMouseMoveNodes(nodes, client, canvasRect, TRUE,
                                     nodes[i].id, offset) = nodes

(* The listeners the effect holds for the drag state of the moment: the    *)
(* mousemove function closed over the current dragged id and offset, and   *)
(* handleMouseUp.                                                          *)
CurrentListeners ==
    [mousemove |-> {handleMouseMove_useCallback(isDragging, draggedNodeId,
                                                dragOffset)},
     mouseup   |-> {"handleMouseUp"}]

(* C29: the window's mousemove and mouseup listeners are registered        *)
(* exactly while a drag is active.  While the basic editor is mounted they *)
(* are the current handleMouseMove and handleMouseUp when isDragging is    *)
(* true and none otherwise; there is never more than one of each; after an *)
(* unmount none is added, the cleanup removes them all, and the cleanup    *)
(* comes.                                                                  *)
C29_ListenersWhileDragging ==
    /\ [](/\ Cardinality(listeners.mousemove) <= 1
          /\ Cardinality(listeners.mouseup) <= 1
          /\ canvasRect # Null =>
                listeners = (IF variant = "basic" /\ isDragging
                             THEN CurrentListeners ELSE NoListeners))
    /\ [][canvasRect = Null => listeners' \in {listeners, NoListeners}]_vars
    /\ ((canvasRect = Null) ~> (listeners = NoListeners))

(* A second press during a drag has replaced the registered mousemove      *)
(* function: the second node is the one dragged, by its name input, after  *)
(* the first was moved.                                                    *)
C29_Witness ==
    /\ variant = "basic"
    /\ canvasRect # Null
    /\ isDragging
    /\ Len(nodes) = 2
    /\ draggedNodeId = nodes[2].id
    /\ dragOffset \in InputPressOffsets
    /\ Moved(nodes[1])
    /\ listeners = CurrentListeners

(* C30, as the spec states it.  A click on the delete button of a node     *)
(* removes the node and every edge connected to it when the confirmation   *)
(* is accepted and leaves nodes and edges as they are when it is declined; *)
(* the press of that click starts no drag of the node.                     *)
C30_DeleteClick ==
    /\ [][\A id \in NodeIds :
            handleDeleteClick(id, TRUE) =>
                /\ nodes' = SelectSeq(nodes, LAMBDA n : n.id # id)
                /\ edges' = SelectSeq(edges, LAMBDA e : e.source # id /\ e.target # id)]_vars
    /\ [][\A id \in NodeIds :
            handleDeleteClick(id, FALSE) => UNCHANGED <<nodes, edges>>]_vars
    /\ [][\A id \in NodeIds :
            (/\ variant = "flow" /\ canvasRect # Null /\ ~isDragging
             /\ CustomNode_onMouseDown(id, DeleteButton_className)) =>
                ~isDragging']_vars

=============================================================================
